---------------------------- MODULE Spec2Model ----------------------------
(***************************************************************************)
(* Model of diffChars, the character diff embedded in the mentions-input   *)
(* widget (jquery.mentions), and of the helpers it is built from.          *)
(*                                                                         *)
(* Strings are sequences of one-character strings; positions are the       *)
(* 0-based JavaScript positions of the source.  An edit component is a     *)
(* record; the flags added / removed are TRUE when the source sets them to *)
(* true and FALSE when the source leaves them undefined or absent (the     *)
(* source only ever tests them for truthiness and for mutual identity).    *)
(* The fields count and value are present in a record exactly when the     *)
(* source object has them.                                                 *)
(*                                                                         *)
(* The objects the search allocates live in heap, so that two paths can    *)
(* share an object as they do in the source: heap.paths holds the path     *)
(* objects {newPos, components}, heap.arrays the components arrays (each   *)
(* a sequence of references to component objects) and heap.comps the       *)
(* component objects.  A reference is the index of the object in its       *)
(* sequence; objects are never freed.                                      *)
(*                                                                         *)
(* bestPath is the sparse array of the source: its DOMAIN is the set of    *)
(* diagonals that currently hold a path, its values are references to      *)
(* path objects; a diagonal that was never set or that was set to          *)
(* undefined is outside the DOMAIN.                                        *)
(***************************************************************************)
EXTENDS Integers, Sequences, FiniteSets, TLC

\* Bound on the length of the enumerated input strings.
MaxLen == 4

\* Bound on the number of invocations in a sequence of calls of diffChars.
MaxCalls == 3

\* Bound on the number of mentions the input holds at first, and on the
\* number setValue may bring it to.
MaxMentions == 2

\* Bound on the number of dialog objects the page holds.
MaxDialogs == 2

\* Bound on the number of rows of the table.
MaxRows == 3

\* Bound on the length of the texts the user types into a mentions input.
MaxText == 2

\* Bound on the number of pieces of a value given to setValue.
MaxPieces == 2

\* Characters of the enumerated input strings.
Alphabet == {"a", "b"}

\* Characters the user types into a mentions input: a letter and the
\* trigger.
Keys == {"a", "@"}

VARIABLES
  oldString,     \* diffChars argument
  newString,     \* diffChars argument
  heap,          \* the path, array and component objects allocated so far
  bestPath,      \* diffChars local: diagonal -> reference to a path object
  editLength,    \* diffChars local: current trial edit length
  diagonalPath,  \* execEditLength loop variable
  canAdd,        \* execEditLength local (truthiness)
  canRemove,     \* execEditLength local (truthiness)
  from,          \* which branch the last step of the call took
  ret,           \* value returned by diffChars (a script), <<>> before return
  pc,            \* position of the call: call / while / for / return / undef
  calls,         \* number of the current invocation of diffChars, from 1
  first,         \* arguments and result of the first invocation, once over
  mentions,      \* MentionsInput: this.mentions, objects with pos and value or name
  thisValue,     \* MentionsInput: this.value, the text the mentions refer to
  input,         \* MentionsInput: this.input.val(), the text of the input
  hidden,        \* MentionsInput: this.hidden.val(), the text with markups
  inputPc,       \* the input: none / construct / ready / dead / update
  dialogs,       \* the objects Drupal.dialog returned that the page still holds
  widget,        \* per element: absent / none / open / modal / closed
  events,        \* the dialog:* events the last dialog operation triggered
  op,            \* the last dialog operation
  rows,          \* the rows of the table: kind of checkbox, checked, selected
  selectAll,     \* the select-all checkbox of the table header
  lastChecked,   \* Drupal.tableSelect local: row of the last click, 0 if none
  tablePc        \* the table: load / ready / plain

\* The variables of diffChars.
diffVars == <<oldString, newString, heap, bestPath, editLength, diagonalPath,
              canAdd, canRemove, from, ret, pc>>

\* The variables that diffChars has no access to.
\* The history of a sequence of invocations of diffChars.
callVars == <<calls, first>>

\* The variables of MentionsInput.
mentionVars == <<mentions, thisValue, input, hidden, inputPc>>

\* The variables of Drupal.dialog and of the jQuery UI widgets it drives.
dialogVars == <<dialogs, widget, events, op>>

\* The variables of Drupal.tableSelect.
tableVars == <<rows, selectAll, lastChecked, tablePc>>

nonDiffVars == <<callVars, mentionVars, dialogVars, tableVars>>

vars == <<diffVars, nonDiffVars>>

Min(a, b) == IF a < b THEN a ELSE b

RECURSIVE StringsOfLen(_)
StringsOfLen(n) ==
  IF n = 0 THEN {<<>>}
  ELSE {Append(s, c) : s \in StringsOfLen(n - 1), c \in Alphabet}

\* The enumerated inputs: every string over Alphabet of length 0..MaxLen.
Strings == UNION {StringsOfLen(n) : n \in 0..MaxLen}

\* The input pairs of the worked examples.
ExamplePairs ==
  { << <<"a", "b", "c">>, <<"a", "b", "X", "c">> >>,
    << <<"h", "e", "l", "l", "o">>, <<"h", "e", "l", "o">> >> }

InputPairs == (Strings \X Strings) \cup ExamplePairs

\* s[i] of JavaScript: the character at 0-based position i, undefined outside.
CharAt(s, i) == IF i >= 0 /\ i < Len(s) THEN s[i + 1] ELSE "undefined"

\* s.slice(start, end) of JavaScript for 0 <= start.
Slice(s, start, end) == SubSeq(s, start + 1, Min(end, Len(s)))

-----------------------------------------------------------------------------
(* The heap *)

EmptyHeap == [paths |-> <<>>, arrays |-> <<>>, comps |-> <<>>]

\* The component objects an array refers to, in order.
Components(h, arr) ==
  [i \in 1..Len(h.arrays[arr]) |-> h.comps[h.arrays[arr][i]]]

\* The path object p with its components array read through.
PathOf(h, p) ==
  [newPos |-> h.paths[p].newPos,
   components |-> Components(h, h.paths[p].components)]

-----------------------------------------------------------------------------
(* pushComponent *)

\* Variant: the last component is never merged with.
PushComponentNoMerge(h, arr, added, removed) ==
  [h EXCEPT !.comps = Append(@, [count |-> 1, added |-> added, removed |-> removed]),
            !.arrays[arr] = Append(@, Len(h.comps) + 1)]

\* Variant: the last component is merged with in place (last.count++).
PushComponentInPlace(h, arr, added, removed) ==
  LET n == Len(h.arrays[arr]) IN
  IF n > 0 /\ h.comps[h.arrays[arr][n]].added = added
           /\ h.comps[h.arrays[arr][n]].removed = removed
  THEN [h EXCEPT !.comps[h.arrays[arr][n]].count = @ + 1]
  ELSE [h EXCEPT !.comps = Append(@, [count |-> 1, added |-> added, removed |-> removed]),
                 !.arrays[arr] = Append(@, Len(h.comps) + 1)]

\* The heap after pushComponent(components, added, removed) on array arr.
PushComponent(h, arr, added, removed) ==
  LET n == Len(h.arrays[arr]) IN
  IF n > 0 /\ h.comps[h.arrays[arr][n]].added = added
           /\ h.comps[h.arrays[arr][n]].removed = removed
  THEN [h EXCEPT !.comps = Append(@, [count |-> h.comps[h.arrays[arr][n]].count + 1,
                                      added |-> added, removed |-> removed]),
                 !.arrays[arr][n] = Len(h.comps) + 1]
  ELSE [h EXCEPT !.comps = Append(@, [count |-> 1, added |-> added, removed |-> removed]),
                 !.arrays[arr] = Append(@, Len(h.comps) + 1)]

(* extractCommon *)

\* Variant: "if" in place of "while", at most one common element is taken.
CommonCountOnce(newStr, oldStr, newPos, oldPos) ==
  IF /\ newPos + 1 < Len(newStr)
     /\ oldPos + 1 < Len(oldStr)
     /\ CharAt(newStr, newPos + 1) = CharAt(oldStr, oldPos + 1)
  THEN 1
  ELSE 0

RECURSIVE CommonCount(_, _, _, _)
CommonCount(newStr, oldStr, newPos, oldPos) ==
  IF /\ newPos + 1 < Len(newStr)
     /\ oldPos + 1 < Len(oldStr)
     /\ CharAt(newStr, newPos + 1) = CharAt(oldStr, oldPos + 1)
  THEN 1 + CommonCount(newStr, oldStr, newPos + 1, oldPos + 1)
  ELSE 0

\* Variant: basePath.newPos is not written back.
ExtractCommonNoWriteBack(h, p, newStr, oldStr, diagonal) ==
  LET commonCount == CommonCount(newStr, oldStr, h.paths[p].newPos,
                                 h.paths[p].newPos - diagonal)
      newPos == h.paths[p].newPos + commonCount
      pushed == IF commonCount # 0
                THEN [h EXCEPT !.comps = Append(@, [count |-> commonCount,
                                                    added |-> FALSE, removed |-> FALSE]),
                               !.arrays[h.paths[p].components] =
                                   Append(@, Len(h.comps) + 1)]
                ELSE h
  IN [heap |-> pushed, oldPos |-> newPos - diagonal]

\* Variant: a component is pushed for an empty run too (no test of
\* commonCount).
ExtractCommonEmptyRun(h, p, newStr, oldStr, diagonal) ==
  LET commonCount == CommonCount(newStr, oldStr, h.paths[p].newPos,
                                 h.paths[p].newPos - diagonal)
      newPos == h.paths[p].newPos + commonCount
      pushed == [h EXCEPT !.comps = Append(@, [count |-> commonCount,
                                               added |-> FALSE, removed |-> FALSE]),
                          !.arrays[h.paths[p].components] =
                              Append(@, Len(h.comps) + 1)]
  IN [heap |-> [pushed EXCEPT !.paths[p].newPos = newPos],
      oldPos |-> newPos - diagonal]

\* extractCommon on the path object p: the heap afterwards and the returned
\* oldPos.
ExtractCommon(h, p, newStr, oldStr, diagonal) ==
  LET commonCount == CommonCount(newStr, oldStr, h.paths[p].newPos,
                                 h.paths[p].newPos - diagonal)
      newPos == h.paths[p].newPos + commonCount
      pushed == IF commonCount # 0
                THEN [h EXCEPT !.comps = Append(@, [count |-> commonCount,
                                                    added |-> FALSE, removed |-> FALSE]),
                               !.arrays[h.paths[p].components] =
                                   Append(@, Len(h.comps) + 1)]
                ELSE h
  IN [heap |-> [pushed EXCEPT !.paths[p].newPos = newPos],
      oldPos |-> newPos - diagonal]

(* clonePath *)

\* Variant: the components array is not copied (no slice(0)).
ClonePathSharedArray(h, p) ==
  [heap |-> [h EXCEPT !.paths = Append(@, [newPos |-> h.paths[p].newPos,
                                           components |-> h.paths[p].components])],
   path |-> Len(h.paths) + 1]

\* clonePath(path): a new path object with a shallow copy of the array.
ClonePath(h, p) ==
  [heap |-> [h EXCEPT !.arrays = Append(@, h.arrays[h.paths[p].components]),
                      !.paths = Append(@, [newPos |-> h.paths[p].newPos,
                                           components |-> Len(h.arrays) + 1])],
   path |-> Len(h.paths) + 1]

(* buildValues *)

\* Variant: oldPos is not advanced over a common component.
RECURSIVE BuildFromStaleOldPos(_, _, _, _, _, _, _)
BuildFromStaleOldPos(h, arr, newStr, oldStr, componentPos, newPos, oldPos) ==
  IF componentPos > Len(h.arrays[arr]) THEN h
  ELSE
    LET c == h.arrays[arr][componentPos]
        component == h.comps[c]
    IN
    IF ~component.removed
    THEN BuildFromStaleOldPos(
           [h EXCEPT !.comps[c] =
              [count |-> component.count, added |-> component.added,
               removed |-> component.removed,
               value |-> Slice(newStr, newPos, newPos + component.count)]],
           arr, newStr, oldStr, componentPos + 1,
           newPos + component.count,
           oldPos)
    ELSE BuildFromStaleOldPos(
           [h EXCEPT !.comps[c] =
              [count |-> component.count, added |-> component.added,
               removed |-> component.removed,
               value |-> Slice(oldStr, oldPos, oldPos + component.count)]],
           arr, newStr, oldStr, componentPos + 1,
           newPos,
           oldPos + component.count)

\* The for loop of buildValues: component.value is set on the objects.
RECURSIVE BuildFrom(_, _, _, _, _, _, _)
BuildFrom(h, arr, newStr, oldStr, componentPos, newPos, oldPos) ==
  IF componentPos > Len(h.arrays[arr]) THEN h
  ELSE
    LET c == h.arrays[arr][componentPos]
        component == h.comps[c]
    IN
    IF ~component.removed
    THEN BuildFrom(
           [h EXCEPT !.comps[c] =
              [count |-> component.count, added |-> component.added,
               removed |-> component.removed,
               value |-> Slice(newStr, newPos, newPos + component.count)]],
           arr, newStr, oldStr, componentPos + 1,
           newPos + component.count,
           IF ~component.added THEN oldPos + component.count ELSE oldPos)
    ELSE BuildFrom(
           [h EXCEPT !.comps[c] =
              [count |-> component.count, added |-> component.added,
               removed |-> component.removed,
               value |-> Slice(oldStr, oldPos, oldPos + component.count)]],
           arr, newStr, oldStr, componentPos + 1,
           newPos,
           oldPos + component.count)

\* The heap after buildValues(components, newString, oldString); the
\* function returns the array it was given.
BuildValues(h, arr, newStr, oldStr) ==
  BuildFrom(h, arr, newStr, oldStr, 1, 0, 0)

-----------------------------------------------------------------------------
(* diffChars: the early returns *)

\* Variant: the identity result is flagged as added.
IdentityScriptAdded(newStr) == << [value |-> newStr, added |-> TRUE, removed |-> FALSE] >>

IdentityScript(newStr) == << [value |-> newStr, added |-> FALSE, removed |-> FALSE] >>

\* Variant: the removed result is flagged as added as well.
RemovedScriptBothFlags(oldStr) == << [value |-> oldStr, added |-> TRUE, removed |-> TRUE] >>

RemovedScript(oldStr) == << [value |-> oldStr, added |-> FALSE, removed |-> TRUE] >>

\* Variant: the added result is flagged as removed instead.
AddedScriptAsRemoved(newStr) == << [value |-> newStr, added |-> FALSE, removed |-> TRUE] >>

AddedScript(newStr) == << [value |-> newStr, added |-> TRUE, removed |-> FALSE] >>

\* Variant: the table of a previous call is written to, not replaced.
SeedTableShared(bp, p) == [d \in DOMAIN bp \cup {0} |-> IF d = 0 THEN p ELSE bp[d]]

\* var bestPath = [{ newPos: -1, components: [] }]: a new table that holds
\* the new path object p at index 0, whatever bestPath held before.
SeedTable(bp, p) == (0 :> p)

\* The heap with the seed path object and its empty components array.
SeedHeap(h) ==
  [h EXCEPT !.arrays = Append(@, <<>>),
            !.paths = Append(@, [newPos |-> -1, components |-> Len(h.arrays) + 1])]

\* Variant: the end test requires the new string to be overrun.
HitEndStrict(basePath, oldPos, newLen, oldLen) ==
  basePath.newPos + 1 > newLen /\ oldPos + 1 >= oldLen

\* The end test of the seed step and of execEditLength.
HitEnd(basePath, oldPos, newLen, oldLen) ==
  basePath.newPos + 1 >= newLen /\ oldPos + 1 >= oldLen

(* execEditLength: the tests of one diagonal *)

\* The newPos read through bestPath[diagonal]; only used when the path exists.
NewPosOf(h, bp, diagonal) ==
  IF diagonal \in DOMAIN bp THEN h.paths[bp[diagonal]].newPos ELSE 0

\* oldPos = (removePath ? removePath.newPos : 0) - diagonalPath
RemoveOldPos(h, bp, diagonal) == NewPosOf(h, bp, diagonal + 1) - diagonal

\* Variant: "<=" in place of "<".
CanAddOffByOne(h, bp, diagonal, newLen) ==
  diagonal - 1 \in DOMAIN bp /\ NewPosOf(h, bp, diagonal - 1) + 1 <= newLen

CanAdd(h, bp, diagonal, newLen) ==
  diagonal - 1 \in DOMAIN bp /\ NewPosOf(h, bp, diagonal - 1) + 1 < newLen

CanRemove(h, bp, diagonal, oldLen) ==
  /\ diagonal + 1 \in DOMAIN bp
  /\ 0 <= RemoveOldPos(h, bp, diagonal)
  /\ RemoveOldPos(h, bp, diagonal) < oldLen

\* Variant: the delete predecessor is taken whenever it is usable.
BranchFromRemoveAlways(cAdd, cRemove, addNewPos, removeNewPos) ==
  ~cAdd \/ cRemove

\* Variant: "<=" in place of "<".
BranchFromRemoveOnTie(cAdd, cRemove, addNewPos, removeNewPos) ==
  ~cAdd \/ (cRemove /\ addNewPos <= removeNewPos)

\* !canAdd || (canRemove && addPath.newPos < removePath.newPos)
BranchFromRemove(cAdd, cRemove, addNewPos, removeNewPos) ==
  ~cAdd \/ (cRemove /\ addNewPos < removeNewPos)

\* Variant: the entry is left in place.
ClearNothing(bp, diagonal) == bp

\* bestPath with an entry set to undefined.
Clear(bp, diagonal) == [d \in DOMAIN bp \ {diagonal} |-> bp[d]]

\* bestPath with an entry set to (a reference to) a path.
Store(bp, diagonal, p) ==
  [d \in DOMAIN bp \cup {diagonal} |-> IF d = diagonal THEN p ELSE bp[d]]

-----------------------------------------------------------------------------
\* The state of diffChars at the entry of a call on (o, n).
DiffInit(o, n) ==
  /\ oldString = o
  /\ newString = n
  /\ heap = EmptyHeap
  /\ bestPath = << >>
  /\ editLength = 0
  /\ diagonalPath = 0
  /\ canAdd = FALSE
  /\ canRemove = FALSE
  /\ from = "none"
  /\ ret = << >>
  /\ pc = "call"

\* No invocation is over yet.
NoCall == [old |-> << >>, new |-> << >>, ret |-> << >>, over |-> FALSE]

\* The first invocation is running.
CallsIdle ==
  /\ calls = 1
  /\ first = NoCall

\* No mentions input is in use.
MentionsIdle ==
  /\ mentions = << >>
  /\ thisValue = << >>
  /\ input = << >>
  /\ hidden = << >>
  /\ inputPc = "none"

\* The elements that can hold a dialog.
Elements == {"e1", "e2"}

\* No dialog operation has run.
NoOp == [name |-> "none", dialog |-> 0, value |-> "undefined", threw |-> FALSE]

\* No dialog is in use.
DialogIdle ==
  /\ dialogs = << >>
  /\ widget = [e \in Elements |-> "absent"]
  /\ events = << >>
  /\ op = NoOp

\* The header cell before Drupal.tableSelect inserted its checkbox.
NoSelectAll == [present |-> FALSE, checked |-> FALSE, title |-> ""]

\* No table is in use.
TableIdle ==
  /\ rows = << >>
  /\ selectAll = NoSelectAll
  /\ lastChecked = 0
  /\ tablePc = "idle"

Init ==
  /\ \E p \in InputPairs : DiffInit(p[1], p[2])
  /\ CallsIdle
  /\ MentionsIdle
  /\ DialogIdle
  /\ TableIdle

\* if (newString === oldString) return [{ value: newString }];
CallIdentity ==
  /\ pc = "call"
  /\ newString = oldString
  /\ ret' = IdentityScript(newString)
  /\ from' = "identity"
  /\ pc' = "return"
  /\ UNCHANGED <<oldString, newString, heap, bestPath, editLength, diagonalPath,
                 canAdd, canRemove>>
  /\ UNCHANGED nonDiffVars

\* if (!newString) return [{ value: oldString, removed: true }];
CallEmptyNew ==
  /\ pc = "call"
  /\ newString # oldString
  /\ newString = <<>>
  /\ ret' = RemovedScript(oldString)
  /\ from' = "emptyNew"
  /\ pc' = "return"
  /\ UNCHANGED <<oldString, newString, heap, bestPath, editLength, diagonalPath,
                 canAdd, canRemove>>
  /\ UNCHANGED nonDiffVars

\* if (!oldString) return [{ value: newString, added: true }];
CallEmptyOld ==
  /\ pc = "call"
  /\ newString # oldString
  /\ newString # <<>>
  /\ oldString = <<>>
  /\ ret' = AddedScript(newString)
  /\ from' = "emptyOld"
  /\ pc' = "return"
  /\ UNCHANGED <<oldString, newString, heap, bestPath, editLength, diagonalPath,
                 canAdd, canRemove>>
  /\ UNCHANGED nonDiffVars

\* The seed step (editLength = 0), up to the initialisation of editLength.
CallSeed ==
  /\ pc = "call"
  /\ newString # oldString
  /\ newString # <<>>
  /\ oldString # <<>>
  /\ \E seeded \in {SeedHeap(heap)} :
     \E p \in {Len(seeded.paths)} :
     \E seed \in {ExtractCommon(seeded, p, newString, oldString, 0)} :
     /\ heap' = seed.heap
     /\ bestPath' = SeedTable(bestPath, p)
     /\ IF HitEnd(seed.heap.paths[p], seed.oldPos, Len(newString), Len(oldString))
        THEN /\ ret' = IdentityScript(newString)
             /\ pc' = "return"
             /\ UNCHANGED editLength
        ELSE /\ ret' = <<>>
             /\ pc' = "while"
             /\ editLength' = 1
  /\ from' = "seed"
  /\ UNCHANGED <<oldString, newString, diagonalPath, canAdd, canRemove>>
  /\ UNCHANGED nonDiffVars

\* while (editLength <= maxEditLength): enter execEditLength, or fall off
\* the end of diffChars (which returns undefined).
WhileTest ==
  /\ pc = "while"
  /\ IF editLength <= Len(newString) + Len(oldString)
     THEN /\ pc' = "for"
          /\ diagonalPath' = -editLength
     ELSE /\ pc' = "undef"
          /\ UNCHANGED diagonalPath
  /\ from' = "while"
  /\ UNCHANGED <<oldString, newString, heap, bestPath, editLength,
                 canAdd, canRemove, ret>>
  /\ UNCHANGED nonDiffVars

\* One iteration of the for loop that ends in "continue": the diagonal is pruned.
ExecPrune ==
  /\ pc = "for"
  /\ diagonalPath <= editLength
  /\ canAdd' = CanAdd(heap, bestPath, diagonalPath, Len(newString))
  /\ canRemove' = CanRemove(heap, bestPath, diagonalPath, Len(oldString))
  /\ ~canAdd' /\ ~canRemove'
  /\ bestPath' = Clear(Clear(bestPath, diagonalPath - 1), diagonalPath)
  /\ diagonalPath' = diagonalPath + 2
  /\ from' = "prune"
  /\ UNCHANGED <<oldString, newString, heap, editLength, ret, pc>>
  /\ UNCHANGED nonDiffVars

\* The tail of an iteration on the path object p: snake, end test, store or
\* return.
ExecFinish(bp, h, p) ==
  \E ext \in {ExtractCommon(h, p, newString, oldString, diagonalPath)} :
  IF HitEnd(ext.heap.paths[p], ext.oldPos, Len(newString), Len(oldString))
  THEN \E built \in {BuildValues(ext.heap, ext.heap.paths[p].components,
                                  newString, oldString)} :
          /\ heap' = built
          /\ ret' = Components(built, built.paths[p].components)
          /\ pc' = "return"
          /\ bestPath' = bp
          /\ UNCHANGED diagonalPath
  ELSE /\ heap' = ext.heap
       /\ bestPath' = Store(bp, diagonalPath, p)
       /\ diagonalPath' = diagonalPath + 2
       /\ UNCHANGED <<ret, pc>>

\* One iteration that branches from the delete predecessor (diagonal + 1).
ExecRemove ==
  /\ pc = "for"
  /\ diagonalPath <= editLength
  /\ canAdd' = CanAdd(heap, bestPath, diagonalPath, Len(newString))
  /\ canRemove' = CanRemove(heap, bestPath, diagonalPath, Len(oldString))
  /\ ~(~canAdd' /\ ~canRemove')
  /\ BranchFromRemove(canAdd', canRemove',
                      NewPosOf(heap, bestPath, diagonalPath - 1),
                      NewPosOf(heap, bestPath, diagonalPath + 1))
  /\ \E clone \in {ClonePath(heap, bestPath[diagonalPath + 1])} :
     \E pushed \in {PushComponent(clone.heap,
                                   clone.heap.paths[clone.path].components,
                                   FALSE, TRUE)} :
        ExecFinish(Clear(bestPath, diagonalPath - 1), pushed, clone.path)
  /\ from' = "remove"
  /\ UNCHANGED <<oldString, newString, editLength>>
  /\ UNCHANGED nonDiffVars

\* One iteration that branches from the insert predecessor (diagonal - 1):
\* the path object is taken out of the table and updated in place.
ExecAdd ==
  /\ pc = "for"
  /\ diagonalPath <= editLength
  /\ canAdd' = CanAdd(heap, bestPath, diagonalPath, Len(newString))
  /\ canRemove' = CanRemove(heap, bestPath, diagonalPath, Len(oldString))
  /\ ~(~canAdd' /\ ~canRemove')
  /\ ~BranchFromRemove(canAdd', canRemove',
                       NewPosOf(heap, bestPath, diagonalPath - 1),
                       NewPosOf(heap, bestPath, diagonalPath + 1))
  /\ \E p \in {bestPath[diagonalPath - 1]} :
     \E advanced \in {[heap EXCEPT !.paths[p].newPos = @ + 1]} :
     \E pushed \in {PushComponent(advanced, advanced.paths[p].components,
                                   TRUE, FALSE)} :
        ExecFinish(Clear(bestPath, diagonalPath - 1), pushed, p)
  /\ from' = "add"
  /\ UNCHANGED <<oldString, newString, editLength>>
  /\ UNCHANGED nonDiffVars

\* The for loop of execEditLength is over: editLength++ and back to the while.
ExecNext ==
  /\ pc = "for"
  /\ diagonalPath > editLength
  /\ editLength' = editLength + 1
  /\ pc' = "while"
  /\ from' = "next"
  /\ UNCHANGED <<oldString, newString, heap, bestPath, diagonalPath,
                 canAdd, canRemove, ret>>
  /\ UNCHANGED nonDiffVars

Next ==
  \/ CallIdentity
  \/ CallEmptyNew
  \/ CallEmptyOld
  \/ CallSeed
  \/ WhileTest
  \/ ExecPrune
  \/ ExecRemove
  \/ ExecAdd
  \/ ExecNext

Spec == Init /\ [][Next]_vars

(* A sequence of invocations of diffChars *)

\* Arguments of the invocations of a sequence: the empty string, equal
\* strings, and strings whose diff needs a search of edit length 1 to 3.
CallStrings == {<< >>, <<"a", "b">>, <<"b", "a">>, <<"a", "a", "b">>}

CallPairs == CallStrings \X CallStrings

\* The caller invokes diffChars again after it returned.  The locals of the
\* new activation are unset in the source; the model leaves in them what the
\* previous invocation left, so a read of a local before the invocation
\* assigns it shows as a dependence on the previous invocation.  The objects
\* of the previous invocations stay on the heap.
NextCall ==
  /\ pc = "return"
  /\ calls < MaxCalls
  /\ \E p \in CallPairs :
       /\ oldString' = p[1]
       /\ newString' = p[2]
  /\ calls' = calls + 1
  /\ first' = IF calls = 1
              THEN [old |-> oldString, new |-> newString, ret |-> ret, over |-> TRUE]
              ELSE first
  /\ ret' = << >>
  /\ from' = "none"
  /\ pc' = "call"
  /\ UNCHANGED <<heap, bestPath, editLength, diagonalPath, canAdd, canRemove>>
  /\ UNCHANGED <<mentionVars, dialogVars, tableVars>>

CallsInit ==
  /\ \E p \in CallPairs : DiffInit(p[1], p[2])
  /\ CallsIdle
  /\ MentionsIdle
  /\ DialogIdle
  /\ TableIdle

CallsNext ==
  \/ CallIdentity
  \/ CallEmptyNew
  \/ CallEmptyOld
  \/ CallSeed
  \/ WhileTest
  \/ ExecPrune
  \/ ExecRemove
  \/ ExecAdd
  \/ ExecNext
  \/ NextCall

CallsSpec == CallsInit /\ [][CallsNext]_vars

(* MentionsInput._updateMentions *)

\* JavaScript numbers as far as _updateMentions computes with them: an
\* integer, or NaN.
Num(n) == [nan |-> FALSE, n |-> n]

NaN == [nan |-> TRUE, n |-> 0]

\* a + b
Plus(a, b) == IF a.nan \/ b.nan THEN NaN ELSE Num(a.n + b.n)

\* -a
Neg(a) == IF a.nan THEN NaN ELSE Num(-a.n)

\* a >= b, false when either is NaN
Geq(a, b) == ~a.nan /\ ~b.nan /\ a.n >= b.n

\* change.count as a number: undefined, of a component without count,
\* makes NaN of every sum it enters.
CountOf(change) == IF "count" \in DOMAIN change THEN Num(change.count) ELSE NaN

Max(a, b) == IF a > b THEN a ELSE b

\* An argument of substring: NaN and negatives are 0, values above the
\* length are the length.
ToIndex(a, len) == IF a.nan \/ a.n < 0 THEN 0 ELSE Min(a.n, len)

\* str.substring(a, b): the arguments are swapped if a > b.
Substring(str, a, b) ==
  SubSeq(str, Min(ToIndex(a, Len(str)), ToIndex(b, Len(str))) + 1,
              Max(ToIndex(a, Len(str)), ToIndex(b, Len(str))))

\* Variant: every mention moves, whatever the cursor.
UpdatePosAll(ms, cursor, delta) ==
  [j \in 1..Len(ms) |-> [ms[j] EXCEPT !.pos = Plus(@, delta)]]

\* update_pos(cursor, delta): every mention at or after cursor moves by delta.
UpdatePos(ms, cursor, delta) ==
  [j \in 1..Len(ms) |->
     IF Geq(ms[j].pos, cursor) THEN [ms[j] EXCEPT !.pos = Plus(@, delta)] ELSE ms[j]]

\* The loop over the changes of diff, from change j with the given cursor.
RECURSIVE ShiftMentions(_, _, _, _)
ShiftMentions(ms, diff, j, cursor) ==
  IF j > Len(diff) THEN ms
  ELSE LET change == diff[j]
           moved == IF change.added THEN UpdatePos(ms, cursor, CountOf(change))
                    ELSE IF change.removed
                         THEN UpdatePos(ms, cursor, Neg(CountOf(change)))
                         ELSE ms
       IN ShiftMentions(moved, diff, j + 1,
                        IF ~change.removed THEN Plus(cursor, CountOf(change))
                        ELSE cursor)

\* this.mentions.splice(i, 1)
Splice(ms, i) == SubSeq(ms, 1, i - 1) \o SubSeq(ms, i + 1, Len(ms))

\* The mention has a value property (the mentions _setValue records have a
\* name instead).
HasValue(mention) == "value" \in DOMAIN mention

\* mention.value.length throws a TypeError for some mention of the list.
ValueThrows(ms) == \E i \in 1..Len(ms) : ~HasValue(ms[i])

\* The loop from the last mention of the copy ref down to the first: a
\* mention whose value is not the piece of the text at its pos is removed.
\* The loop ends at a mention without value, where mention.value.length
\* throws.
RECURSIVE DropMismatched(_, _, _, _)
DropMismatched(ms, ref, i, text) ==
  IF i < 1 \/ ~HasValue(ref[i]) THEN ms
  ELSE LET piece == Substring(text, ref[i].pos,
                              Plus(ref[i].pos, Num(Len(ref[i].value))))
       IN DropMismatched(IF ref[i].value # piece THEN Splice(ms, i) ELSE ms,
                         ref, i - 1, text)

\* The mentions lists the input can hold at first for the text: up to
\* MaxMentions mentions in the order of pos, each a non-empty piece of the
\* text, no two sharing a character.
MentionsOf(text) ==
  UNION {{[pos |-> Num(p), value |-> SubSeq(text, p + 1, p + l)] :
            l \in 1..(Len(text) - p)} : p \in 0..(Len(text) - 1)}

MentionLists(text) ==
  {ms \in UNION {[1..n -> MentionsOf(text)] : n \in 0..MaxMentions} :
     \A i \in 1..(Len(ms) - 1) : ms[i].pos.n + Len(ms[i].value) <= ms[i + 1].pos.n}

\* value = this.input.val(); diff = diffChars(this.value, value): the call
\* is about to start on the recorded text and the edited text.
MentionsInit ==
  /\ \E p \in Strings \X Strings :
       /\ DiffInit(p[1], p[2])
       /\ thisValue = p[1]
       /\ input = p[2]
       /\ mentions \in MentionLists(p[1])
  /\ hidden = << >>
  /\ inputPc = "none"
  /\ CallsIdle
  /\ DialogIdle
  /\ TableIdle

\* The mentions after _updateMentions once diffChars has returned diff:
\* shifted along the changes, the mismatched ones removed.
UpdatedMentions(ms, diff, text) ==
  LET shifted == ShiftMentions(ms, diff, 1, Num(0))
  IN DropMismatched(shifted, shifted, Len(shifted), text)

\* this.value after _updateMentions: the text, unless the loop over the
\* mentions threw before the assignment.
UpdatedValue(ms, value, text) == IF ValueThrows(ms) THEN value ELSE text

\* The rest of _updateMentions once diffChars has returned: the mentions
\* are shifted along the changes, the mismatched ones are removed and the
\* text is recorded.
UpdateMentions ==
  /\ pc = "return"
  /\ inputPc = "none"
  /\ mentions' = UpdatedMentions(mentions, ret, newString)
  /\ thisValue' = UpdatedValue(mentions, thisValue, newString)
  /\ pc' = "done"
  /\ UNCHANGED <<input, hidden, inputPc>>
  /\ UNCHANGED <<oldString, newString, heap, bestPath, editLength, diagonalPath,
                 canAdd, canRemove, from, ret>>
  /\ UNCHANGED <<callVars, dialogVars, tableVars>>

MentionsNext ==
  \/ CallIdentity
  \/ CallEmptyNew
  \/ CallEmptyOld
  \/ CallSeed
  \/ WhileTest
  \/ ExecPrune
  \/ ExecRemove
  \/ ExecAdd
  \/ ExecNext
  \/ UpdateMentions

MentionsSpec == MentionsInit /\ [][MentionsNext]_vars

(* MentionsInput: one input from its construction on *)

RECURSIVE TextsOfLen(_)
TextsOfLen(n) ==
  IF n = 0 THEN {<< >>}
  ELSE {Append(s, c) : s \in TextsOfLen(n - 1), c \in Keys}

\* The texts the user leaves in the input: every string over Keys of length
\* 0..MaxText.
InputTexts == UNION {TextsOfLen(n) : n \in 0..MaxText}

\* The mentions given to setValue.
Items == {[value |-> <<"a">>, uid |-> <<"u">>],
          [value |-> <<"a", "b">>, uid |-> <<"v", "w">>]}

\* The arguments of setValue: strings (here of one character) and mentions.
Pieces == {[text |-> <<c>>] : c \in Keys} \cup Items

PieceLists == UNION {[1..n -> Pieces] : n \in 0..MaxPieces}

\* typeof piece === 'string'
IsString(piece) == "text" \in DOMAIN piece

\* What an absent property gives in a string concatenation.
Undefined == <<"u", "n", "d", "e", "f", "i", "n", "e", "d">>

PropertyText(mention, key) ==
  IF key \in DOMAIN mention THEN mention[key] ELSE Undefined

\* _markupMention: "@[" + mention.value + "](" + mention.uid + ")"
MarkupMention(mention) ==
  <<"@", "[">> \o PropertyText(mention, "value") \o <<"]", "(">>
    \o PropertyText(mention, "uid") \o <<")">>

\* The value setValue builds of its arguments.
RECURSIVE PiecesValue(_)
PiecesValue(pieces) ==
  IF pieces = << >> THEN << >>
  ELSE (IF IsString(Head(pieces)) THEN Head(pieces).text
        ELSE MarkupMention(Head(pieces)))
       \o PiecesValue(Tail(pieces))

\* The first position from i on (counted from 1) of a character of stops in
\* value, 0 if there is none.
FirstOf(value, i, stops) ==
  IF \E k \in i..Len(value) : value[k] \in stops
  THEN CHOOSE k \in i..Len(value) :
         /\ value[k] \in stops
         /\ \A j \in i..(k - 1) : value[j] \notin stops
  ELSE 0

NoMatch == [found |-> FALSE]

\* mentionRE = /@\[([^\]]+)\]\(([^ \)]+)\)/ tried at index (counted from 0)
\* of value: the name runs to the first "]", the uid from behind "](" to the
\* first blank or ")", which has to be a ")".
MatchAt(value, index) ==
  LET close == FirstOf(value, index + 3, {"]"})
      end == IF close = 0 THEN 0 ELSE FirstOf(value, close + 2, {" ", ")"})
  IN IF /\ index + 2 <= Len(value)
        /\ value[index + 1] = "@"
        /\ value[index + 2] = "["
        /\ close >= index + 4
        /\ close + 1 <= Len(value)
        /\ value[close + 1] = "("
        /\ end >= close + 3
        /\ value[end] = ")"
     THEN [found |-> TRUE, index |-> index,
           name |-> SubSeq(value, index + 3, close - 1),
           uid |-> SubSeq(value, close + 2, end - 1),
           length |-> end - index]
     ELSE NoMatch

\* mentionRE.exec(value) with lastIndex: the leftmost match from lastIndex on.
Exec(value, lastIndex) ==
  LET hits == {i \in lastIndex..(Len(value) - 1) : MatchAt(value, i).found}
  IN IF hits = {} THEN NoMatch
     ELSE MatchAt(value, CHOOSE i \in hits : \A j \in hits : i <= j)

\* value.replace(mentionRE, '$1') from lastIndex on.
RECURSIVE ReplaceFrom(_, _)
ReplaceFrom(value, lastIndex) ==
  LET match == Exec(value, lastIndex)
  IN IF ~match.found THEN SubSeq(value, lastIndex + 1, Len(value))
     ELSE SubSeq(value, lastIndex + 1, match.index) \o match.name
            \o ReplaceFrom(value, match.index + match.length)

\* a.pos - b.pos < 0 (a NaN difference counts as 0)
Before(a, b) == ~a.pos.nan /\ ~b.pos.nan /\ a.pos.n < b.pos.n

\* The sorted list with mention put behind the last one it is not before.
InsertSorted(sorted, mention) ==
  LET k == Max(0, CHOOSE i \in 0..Len(sorted) :
                    /\ i > 0 => ~Before(mention, sorted[i])
                    /\ \A j \in (i + 1)..Len(sorted) : Before(mention, sorted[j]))
  IN SubSeq(sorted, 1, k) \o <<mention>> \o SubSeq(sorted, k + 1, Len(sorted))

\* this.mentions.sort(function(a, b) { return a.pos - b.pos; }), as a
\* stable sort.
RECURSIVE SortMentions(_)
SortMentions(ms) ==
  IF ms = << >> THEN << >>
  ELSE InsertSorted(SortMentions(SubSeq(ms, 1, Len(ms) - 1)), ms[Len(ms)])

\* _addMention: push, then sort.
AddMention(ms, mention) == SortMentions(Append(ms, mention))

\* Variant: the offset of a markup leaves out its closing parenthesis.
RECURSIVE RecordFromShort(_, _, _, _)
RecordFromShort(ms, value, lastIndex, offset) ==
  LET match == Exec(value, lastIndex)
  IN IF ~match.found THEN ms
     ELSE RecordFromShort(AddMention(ms, [name |-> match.name, uid |-> match.uid,
                                          pos |-> Num(match.index - offset)]),
                          value, match.index + match.length,
                          offset + Len(match.uid) + 4)

\* The while loop of _setValue: every match of mentionRE in value from
\* lastIndex on is added as a mention with name, uid and pos.
RECURSIVE RecordFrom(_, _, _, _)
RecordFrom(ms, value, lastIndex, offset) ==
  LET match == Exec(value, lastIndex)
  IN IF ~match.found THEN ms
     ELSE RecordFrom(AddMention(ms, [name |-> match.name, uid |-> match.uid,
                                     pos |-> Num(match.index - offset)]),
                     value, match.index + match.length,
                     offset + Len(match.uid) + 5)

\* hdContent.join('') + piece of _updateValue, from mention j on.
RECURSIVE HiddenContent(_, _, _, _)
HiddenContent(ms, value, j, cursor) ==
  IF j > Len(ms) THEN Substring(value, cursor, Num(Len(value)))
  ELSE Substring(value, cursor, ms[j].pos) \o MarkupMention(ms[j])
         \o HiddenContent(ms, value, j + 1,
                          Plus(ms[j].pos, Num(Len(ms[j].value))))

\* this.hidden.val() after _updateValue: the loop throws at a mention
\* without value, before the hidden input is written.
UpdateValue(ms, value, old) ==
  IF ValueThrows(ms) THEN old ELSE HiddenContent(ms, value, 1, Num(0))

\* _setValue(value) of an input that holds the mentions ms.
SetValueOf(ms, value) ==
  /\ thisValue' = ReplaceFrom(value, 0)
  /\ input' = ReplaceFrom(value, 0)
  /\ mentions' = RecordFrom(ms, value, 0, 0)
  /\ hidden' = UpdateValue(RecordFrom(ms, value, 0, 0), ReplaceFrom(value, 0), hidden)

\* diffChars is called on the two texts; the objects of earlier calls are
\* out of reach and left out.
StartDiff(o, n) ==
  /\ oldString' = o
  /\ newString' = n
  /\ heap' = EmptyHeap
  /\ bestPath' = << >>
  /\ editLength' = 0
  /\ diagonalPath' = 0
  /\ canAdd' = FALSE
  /\ canRemove' = FALSE
  /\ from' = "none"
  /\ ret' = << >>
  /\ pc' = "call"

\* The handler that called diffChars is over and its locals are gone.
EndDiff ==
  /\ oldString' = << >>
  /\ newString' = << >>
  /\ heap' = EmptyHeap
  /\ bestPath' = << >>
  /\ editLength' = 0
  /\ diagonalPath' = 0
  /\ canAdd' = FALSE
  /\ canRemove' = FALSE
  /\ from' = "none"
  /\ ret' = << >>
  /\ pc' = "done"

\* this.value is the text of the input, as every handler that returns
\* leaves it.  The input is followed until a handler throws before it has
\* recorded the text.
InSync == thisValue = input

\* The constructor is about to call _setValue(this.input.val()) on the text
\* the page gave the input.
InputInit ==
  /\ oldString = << >>
  /\ newString = << >>
  /\ heap = EmptyHeap
  /\ bestPath = << >>
  /\ editLength = 0
  /\ diagonalPath = 0
  /\ canAdd = FALSE
  /\ canRemove = FALSE
  /\ from = "none"
  /\ ret = << >>
  /\ pc = "done"
  /\ mentions = << >>
  /\ thisValue = << >>
  /\ input \in {PiecesValue(ps) : ps \in PieceLists}
  /\ hidden = << >>
  /\ inputPc = "construct"
  /\ CallsIdle
  /\ DialogIdle
  /\ TableIdle

\* The end of the constructor: this._setValue(this.input.val()), and
\* this._initEvents() unless _setValue threw.
Construct ==
  /\ inputPc = "construct"
  /\ SetValueOf(mentions, input)
  /\ inputPc' = IF ValueThrows(RecordFrom(mentions, input, 0, 0))
                THEN "dead" ELSE "ready"
  /\ UNCHANGED <<diffVars, callVars, dialogVars, tableVars>>

\* The number of mentions among the pieces.
MentionCount(pieces) == Cardinality({i \in 1..Len(pieces) : ~IsString(pieces[i])})

\* setValue(pieces...)
SetValueWith(pieces) ==
  /\ inputPc = "ready"
  /\ InSync
  /\ Len(mentions) + MentionCount(pieces) <= MaxMentions
  /\ SetValueOf(mentions, PiecesValue(pieces))
  /\ UNCHANGED inputPc
  /\ UNCHANGED <<diffVars, callVars, dialogVars, tableVars>>

SetValue == \E pieces \in PieceLists : SetValueWith(pieces)

\* The user changes the text of the input; the input or change event calls
\* _update, which calls _updateMentions, which calls diffChars.
InputEvent ==
  /\ inputPc = "ready"
  /\ InSync
  /\ \E text \in InputTexts :
       /\ input' = text
       /\ StartDiff(thisValue, text)
  /\ inputPc' = "update"
  /\ UNCHANGED <<mentions, thisValue, hidden>>
  /\ UNCHANGED <<callVars, dialogVars, tableVars>>

\* The rest of _update once diffChars has returned: the rest of
\* _updateMentions, then _updateValue unless _updateMentions threw.
Update ==
  /\ pc = "return"
  /\ inputPc = "update"
  /\ mentions' = UpdatedMentions(mentions, ret, newString)
  /\ thisValue' = UpdatedValue(mentions, thisValue, newString)
  /\ hidden' = UpdateValue(mentions', newString, hidden)
  /\ inputPc' = "ready"
  /\ EndDiff
  /\ UNCHANGED input
  /\ UNCHANGED <<callVars, dialogVars, tableVars>>

InputNext ==
  \/ Construct
  \/ SetValue
  \/ InputEvent
  \/ CallIdentity
  \/ CallEmptyNew
  \/ CallEmptyOld
  \/ CallSeed
  \/ WhileTest
  \/ ExecPrune
  \/ ExecRemove
  \/ ExecAdd
  \/ ExecNext
  \/ Update

InputSpec == InputInit /\ [][InputNext]_vars

(* Drupal.dialog *)

\* The arguments of close: none (undefined), or 'cancel' of the
\* .dialog-cancel click handler.
Values == {"undefined", "cancel"}

\* diffChars is not running.
DiffIdle == DiffInit(<< >>, << >>)

\* The object Drupal.dialog(element) returns.  wasOpened is history: show or
\* showModal has been called on the object.
NewDialog(e) ==
  [element |-> e, open |-> FALSE, returnValue |-> "undefined", wasOpened |-> FALSE]

\* The element's jQuery UI dialog is on the page.
IsShown(w) == w \in {"open", "modal"}

\* $(window).trigger(type, [dialog, ...]): what a handler sees of the dialog
\* object id.
Trigger(type, id, open) == [type |-> type, dialog |-> id, open |-> open]

\* Variant: dialog:aftercreate is triggered before dialog.open is set.
OpenDialogEventsLate(id, openBefore) ==
  << Trigger("dialog:beforecreate", id, openBefore),
     Trigger("dialog:aftercreate", id, openBefore) >>

\* openDialog: the events it triggers on the object id, around
\* $element.dialog(settings) and dialog.open = true.
OpenDialogEvents(id, openBefore) ==
  << Trigger("dialog:beforecreate", id, openBefore),
     Trigger("dialog:aftercreate", id, TRUE) >>

\* openDialog: dialog.open = true.
Opened(dlg) == [dlg EXCEPT !.open = TRUE, !.wasOpened = TRUE]

\* Variant: returnValue is not assigned.
ClosedNoValue(dlg, value) == [dlg EXCEPT !.open = FALSE]

\* closeDialog: dialog.returnValue = value; dialog.open = false.
Closed(dlg, value) == [dlg EXCEPT !.returnValue = value, !.open = FALSE]

\* The widget hiding a shown dialog runs settings.close, by default
\* drupalSettings.dialog.close: Drupal.dialog(event.target).close() on a new
\* object, id, whose own $element.dialog('close') finds the dialog hidden.
CloseCallbackEvents(w, id) ==
  IF IsShown(w)
  THEN << Trigger("dialog:beforeclose", id, FALSE),
          Trigger("dialog:afterclose", id, FALSE) >>
  ELSE << >>

\* closeDialog on the object id while the widget is in state w: the events
\* it triggers; fresh is the id of the object the close callback creates.
CloseDialogEvents(id, openBefore, w, fresh) ==
  << Trigger("dialog:beforeclose", id, openBefore) >>
    \o CloseCallbackEvents(w, fresh)
    \o << Trigger("dialog:afterclose", id, FALSE) >>

\* $element.dialog('close') on the widget state w.
WidgetClosed(w) == IF IsShown(w) THEN "closed" ELSE w

DialogInit ==
  /\ dialogs = << >>
  /\ widget \in [Elements -> {"absent", "none"}]
  /\ events = << >>
  /\ op = NoOp
  /\ DiffIdle
  /\ CallsIdle
  /\ MentionsIdle
  /\ TableIdle

\* var dialog = Drupal.dialog(element) in a script of the page.
CreateDialog ==
  /\ Len(dialogs) < MaxDialogs
  /\ \E e \in Elements :
       /\ widget[e] # "absent"
       /\ dialogs' = Append(dialogs, NewDialog(e))
  /\ events' = << >>
  /\ op' = [name |-> "create", dialog |-> Len(dialogs) + 1,
            value |-> "undefined", threw |-> FALSE]
  /\ UNCHANGED widget
  /\ UNCHANGED <<diffVars, callVars, mentionVars, tableVars>>

\* dialog.show(): openDialog({modal: false}) with autoOpen of the default
\* settings.
Show ==
  /\ \E d \in 1..Len(dialogs) :
       /\ events' = OpenDialogEvents(d, dialogs[d].open)
       /\ widget' = [widget EXCEPT ![dialogs[d].element] = "open"]
       /\ dialogs' = [dialogs EXCEPT ![d] = Opened(@)]
       /\ op' = [name |-> "show", dialog |-> d, value |-> "undefined", threw |-> FALSE]
  /\ UNCHANGED <<diffVars, callVars, mentionVars, tableVars>>

\* dialog.showModal(): openDialog({modal: true}).
ShowModal ==
  /\ \E d \in 1..Len(dialogs) :
       /\ events' = OpenDialogEvents(d, dialogs[d].open)
       /\ widget' = [widget EXCEPT ![dialogs[d].element] = "modal"]
       /\ dialogs' = [dialogs EXCEPT ![d] = Opened(@)]
       /\ op' = [name |-> "showModal", dialog |-> d, value |-> "undefined",
                 threw |-> FALSE]
  /\ UNCHANGED <<diffVars, callVars, mentionVars, tableVars>>

\* dialog.close(value).  On an element that has no widget the method call
\* $element.dialog('close') is the library's to answer: it returns, or it
\* throws and closeDialog stops after dialog:beforeclose.
Close ==
  /\ \E d \in 1..Len(dialogs), value \in Values, throws \in BOOLEAN :
       /\ throws => widget[dialogs[d].element] \in {"absent", "none"}
       /\ op' = [name |-> "close", dialog |-> d, value |-> value, threw |-> throws]
       /\ IF throws
          THEN /\ events' = << Trigger("dialog:beforeclose", d, dialogs[d].open) >>
               /\ UNCHANGED <<dialogs, widget>>
          ELSE /\ events' = CloseDialogEvents(d, dialogs[d].open,
                                              widget[dialogs[d].element],
                                              Len(dialogs) + 1)
               /\ widget' = [widget EXCEPT ![dialogs[d].element] = WidgetClosed(@)]
               /\ dialogs' = [dialogs EXCEPT ![d] = Closed(@, value)]
  /\ UNCHANGED <<diffVars, callVars, mentionVars, tableVars>>

\* The user closes a shown dialog with the widget's own controls: the
\* widget hides it and runs drupalSettings.dialog.close.
UserClose ==
  /\ \E e \in Elements :
       /\ IsShown(widget[e])
       /\ events' = CloseCallbackEvents(widget[e], Len(dialogs) + 1)
       /\ widget' = [widget EXCEPT ![e] = WidgetClosed(@)]
  /\ op' = [name |-> "userClose", dialog |-> 0, value |-> "undefined", threw |-> FALSE]
  /\ UNCHANGED dialogs
  /\ UNCHANGED <<diffVars, callVars, mentionVars, tableVars>>

\* Drupal.AjaxCommands.prototype.openDialog: the element is created if
\* needed, a new dialog object is made for it and shown.
AjaxOpenDialog ==
  /\ Len(dialogs) < MaxDialogs
  /\ \E e \in Elements, modal \in BOOLEAN :
       /\ dialogs' = Append(dialogs, Opened(NewDialog(e)))
       /\ widget' = [widget EXCEPT ![e] = IF modal THEN "modal" ELSE "open"]
       /\ op' = [name |-> IF modal THEN "showModal" ELSE "show",
                 dialog |-> Len(dialogs) + 1, value |-> "undefined", threw |-> FALSE]
  /\ events' = OpenDialogEvents(Len(dialogs) + 1, FALSE)
  /\ UNCHANGED <<diffVars, callVars, mentionVars, tableVars>>

\* Drupal.AjaxCommands.prototype.closeDialog on an element the selector
\* finds: close() on a new object, then the element is removed unless
\* response.persist.
AjaxCloseDialog ==
  /\ \E e \in Elements, persist \in BOOLEAN, throws \in BOOLEAN :
       /\ widget[e] # "absent"
       /\ throws => widget[e] = "none"
       /\ op' = [name |-> "ajaxClose", dialog |-> 0, value |-> "undefined",
                 threw |-> throws]
       /\ IF throws
          THEN /\ events' = << Trigger("dialog:beforeclose", Len(dialogs) + 1, FALSE) >>
               /\ UNCHANGED widget
          ELSE /\ events' = CloseDialogEvents(Len(dialogs) + 1, FALSE, widget[e],
                                              Len(dialogs) + 2)
               /\ widget' = [widget EXCEPT
                               ![e] = IF persist THEN WidgetClosed(@) ELSE "absent"]
  /\ UNCHANGED dialogs
  /\ UNCHANGED <<diffVars, callVars, mentionVars, tableVars>>

DialogNext ==
  \/ CreateDialog
  \/ Show
  \/ ShowModal
  \/ Close
  \/ UserClose
  \/ AjaxOpenDialog
  \/ AjaxCloseDialog

DialogSpec == DialogInit /\ [][DialogNext]_vars

(* Drupal.tableSelect *)

\* The rows whose checkbox is td input[type="checkbox"]:enabled.
Checkboxes(rs) == {i \in 1..Len(rs) : rs[i].kind = "enabled"}

\* checkboxes.length === checkboxes.filter(':checked').length
AllChecked(rs) ==
  Cardinality(Checkboxes(rs)) = Cardinality({i \in Checkboxes(rs) : rs[i].checked})

\* Variant: the checked state is left as it is.
UpdateSelectAllTitleOnly(sa, state) ==
  [sa EXCEPT !.title = IF state THEN "selectNone" ELSE "selectAll"]

\* updateSelectAll(state) on the select-all checkbox.
UpdateSelectAll(sa, state) ==
  [sa EXCEPT !.title = IF state THEN "selectNone" ELSE "selectAll",
             !.checked = IF sa.checked # state THEN state ELSE @]

\* Variant: the loop stops before the row to instead of after it.
TableSelectRangeBeforeTo(rs, fromRow, toRow, state) ==
  [i \in 1..Len(rs) |->
     IF \/ fromRow > toRow /\ toRow < i /\ i < fromRow
        \/ fromRow <= toRow /\ fromRow < i /\ i < toRow
     THEN [rs[i] EXCEPT !.selected = state,
                        !.checked = IF rs[i].kind # "none" THEN state ELSE @]
     ELSE rs[i]]

\* Drupal.tableSelectRange(from, to, state) on rows of one table body: the
\* rows after from up to to, or before from down to to, get the class and
\* every checkbox in them the state.
TableSelectRange(rs, fromRow, toRow, state) ==
  [i \in 1..Len(rs) |->
     IF \/ fromRow > toRow /\ toRow <= i /\ i < fromRow
        \/ fromRow <= toRow /\ fromRow < i /\ i <= toRow
     THEN [rs[i] EXCEPT !.selected = state,
                        !.checked = IF rs[i].kind # "none" THEN state ELSE @]
     ELSE rs[i]]

\* The rows a page can bring: without checkbox, or with an enabled or a
\* disabled checkbox that the markup has checked or not.
RowStates ==
  {[kind |-> "none", checked |-> FALSE, selected |-> FALSE]} \cup
  {[kind |-> k, checked |-> c, selected |-> FALSE] :
     k \in {"enabled", "disabled"}, c \in BOOLEAN}

TableInit ==
  /\ rows \in UNION {[1..n -> RowStates] : n \in 0..MaxRows}
  /\ selectAll = NoSelectAll
  /\ lastChecked = 0
  /\ tablePc = "load"
  /\ DiffIdle
  /\ CallsIdle
  /\ MentionsIdle
  /\ DialogIdle

\* Drupal.tableSelect on page load: nothing for a table without row
\* checkboxes; else the select-all checkbox is inserted and updated.
TableSelect ==
  /\ tablePc = "load"
  /\ IF \A i \in 1..Len(rows) : rows[i].kind = "none"
     THEN /\ tablePc' = "plain"
          /\ UNCHANGED selectAll
     ELSE /\ tablePc' = "ready"
          /\ selectAll' = UpdateSelectAll([present |-> TRUE, checked |-> FALSE,
                                           title |-> "selectAll"],
                                          AllChecked(rows))
  /\ UNCHANGED <<rows, lastChecked>>
  /\ UNCHANGED <<diffVars, callVars, mentionVars, dialogVars>>

\* A click on the select-all checkbox: the browser toggles it, the handler
\* gives every enabled row checkbox and its row the new state.
ClickSelectAll ==
  /\ tablePc = "ready"
  /\ rows' = [i \in 1..Len(rows) |->
                IF i \in Checkboxes(rows)
                THEN [rows[i] EXCEPT !.checked = ~selectAll.checked,
                                     !.selected = ~selectAll.checked]
                ELSE rows[i]]
  /\ selectAll' = UpdateSelectAll([selectAll EXCEPT !.checked = ~selectAll.checked],
                                  ~selectAll.checked)
  /\ UNCHANGED <<lastChecked, tablePc>>
  /\ UNCHANGED <<diffVars, callVars, mentionVars, dialogVars>>

\* A click on an enabled row checkbox, with or without the shift key: the
\* browser toggles it, the handler marks the row, extends the state over the
\* range from the last click, and updates the select-all checkbox.
ClickRowAt(r, shiftKey) ==
  /\ tablePc = "ready"
  /\ r \in Checkboxes(rows)
  /\ \E clicked \in {[rows EXCEPT ![r].checked = ~rows[r].checked,
                                  ![r].selected = ~rows[r].checked]} :
     \E ranged \in {IF shiftKey /\ lastChecked # 0 /\ lastChecked # r
                    THEN TableSelectRange(clicked, r, lastChecked, clicked[r].checked)
                    ELSE clicked} :
       /\ rows' = ranged
       /\ selectAll' = UpdateSelectAll(selectAll, AllChecked(ranged))
       /\ lastChecked' = r
  /\ UNCHANGED tablePc
  /\ UNCHANGED <<diffVars, callVars, mentionVars, dialogVars>>

ClickRow == \E r \in 1..Len(rows), shiftKey \in BOOLEAN : ClickRowAt(r, shiftKey)

TableNext ==
  \/ TableSelect
  \/ ClickSelectAll
  \/ ClickRow

TableSpec == TableInit /\ [][TableNext]_vars

\* The call under weak fairness of its steps: a call that can take a step
\* takes it (the function runs synchronously to completion).
FairSpec == Spec /\ WF_vars(Next)

-----------------------------------------------------------------------------
(* Vocabulary of the properties *)

\* The call has returned a script.
Returned == pc = "return"

\* The call has returned from the search loop (inputs non-empty, different).
ReturnedFromSearch == pc = "return" /\ from \in {"add", "remove"}

RECURSIVE ConcatNotRemoved(_)
ConcatNotRemoved(script) ==
  IF script = <<>> THEN <<>>
  ELSE (IF ~Head(script).removed THEN Head(script).value ELSE <<>>)
         \o ConcatNotRemoved(Tail(script))

RECURSIVE ConcatNotAdded(_)
ConcatNotAdded(script) ==
  IF script = <<>> THEN <<>>
  ELSE (IF ~Head(script).added THEN Head(script).value ELSE <<>>)
         \o ConcatNotAdded(Tail(script))

\* Sum of the counts of the added and removed components.
RECURSIVE EditCount(_)
EditCount(script) ==
  IF script = <<>> THEN 0
  ELSE (IF Head(script).added \/ Head(script).removed THEN Head(script).count ELSE 0)
         + EditCount(Tail(script))

\* Length of a longest common subsequence of the prefixes a[1..i], b[1..j].
RECURSIVE LCS(_, _, _, _)
LCS(a, b, i, j) ==
  IF i = 0 \/ j = 0 THEN 0
  ELSE IF a[i] = b[j] THEN 1 + LCS(a, b, i - 1, j - 1)
  ELSE LET x == LCS(a, b, i - 1, j)
           y == LCS(a, b, i, j - 1)
       IN IF x > y THEN x ELSE y

\* Insert/delete edit distance.
EditDistance(a, b) == Len(a) + Len(b) - 2 * LCS(a, b, Len(a), Len(b))

Kind(component) == <<component.added, component.removed>>

-----------------------------------------------------------------------------
\* C1 - Reconstruction: for every returned script, the values of the
\* components that are not removed concatenate to newString and the values
\* of the components that are not added concatenate to oldString.
Reconstruction ==
  Returned => /\ ConcatNotRemoved(ret) = newString
              /\ ConcatNotAdded(ret) = oldString

\* A search result that has an added, a removed and a common component.
ReconstructionWitness ==
  /\ ReturnedFromSearch
  /\ \E i, j, k \in 1..Len(ret) :
       /\ ret[i].added
       /\ ret[j].removed
       /\ ~ret[k].added /\ ~ret[k].removed

\* C2 - Minimality: for non-empty, non-identical inputs the counts of the
\* added and removed components of the result sum to the insert/delete edit
\* distance len(old) + len(new) - 2 * LCS(old, new).
Minimality ==
  ReturnedFromSearch => EditCount(ret) = EditDistance(oldString, newString)

\* A result of edit distance at least 3 that keeps a common subsequence.
MinimalityWitness ==
  /\ ReturnedFromSearch
  /\ EditCount(ret) >= 3
  /\ LCS(oldString, newString, Len(oldString), Len(newString)) >= 1

\* C3 - Identity: diffChars(S, S) is exactly one component, with value S and
\* neither flag, for every S including the empty string.
Identity ==
  (Returned /\ newString = oldString) =>
     /\ Len(ret) = 1
     /\ ret[1].value = newString
     /\ ~ret[1].added
     /\ ~ret[1].removed

\* The identity case has returned for a non-empty string.
IdentityWitness ==
  Returned /\ newString = oldString /\ Len(newString) >= 2 /\ Len(ret) = 1

\* C4 - Empty-old: diffChars("", S) for non-empty S is exactly one
\* component, with value S, marked added and not removed.
EmptyOld ==
  (Returned /\ oldString = <<>> /\ newString # <<>>) =>
     /\ Len(ret) = 1
     /\ ret[1].value = newString
     /\ ret[1].added
     /\ ~ret[1].removed

\* The empty-old case has returned.
EmptyOldWitness ==
  Returned /\ oldString = <<>> /\ Len(newString) >= 2 /\ from = "emptyOld"

\* C5 - Empty-new: diffChars(S, "") for non-empty S is exactly one
\* component, with value S, marked removed and not added.
EmptyNew ==
  (Returned /\ newString = <<>> /\ oldString # <<>>) =>
     /\ Len(ret) = 1
     /\ ret[1].value = oldString
     /\ ret[1].removed
     /\ ~ret[1].added

\* The empty-new case has returned.
EmptyNewWitness ==
  Returned /\ newString = <<>> /\ Len(oldString) >= 2 /\ from = "emptyNew"

\* C6 - No-adjacent-same-kind: no two consecutive components of a returned
\* script have the same (added, removed) flags.
NoAdjacentSameKind ==
  Returned => \A i \in 1..(Len(ret) - 1) : Kind(ret[i]) # Kind(ret[i + 1])

\* A result in which runs were merged: an added run and a removed run of
\* count at least 2 each.
NoAdjacentSameKindWitness ==
  /\ ReturnedFromSearch
  /\ \E i, j \in 1..Len(ret) :
       /\ ret[i].added /\ ret[i].count >= 2
       /\ ret[j].removed /\ ret[j].count >= 2

\* C7 - Every component of every returned script carries a count that is an
\* integer >= 1 and equals the length of its value.
CountIsValueLength ==
  Returned => \A i \in 1..Len(ret) :
                /\ "count" \in DOMAIN ret[i]
                /\ ret[i].count \in Nat
                /\ ret[i].count >= 1
                /\ ret[i].count = Len(ret[i].value)

\* C8 - Totality: the call never falls off the end of the while loop, every
\* return carries a script, a return from the search loop happens at a trial
\* edit length in 1..len(old)+len(new), and every call returns.
TotalityInv ==
  /\ pc # "undef"
  /\ Returned => Len(ret) >= 1
  /\ ReturnedFromSearch =>
       (1 <= editLength /\ editLength <= Len(oldString) + Len(newString))

Totality == []TotalityInv /\ <>Returned

\* A return from the search loop at the largest possible trial edit length.
TotalityWitness ==
  /\ ReturnedFromSearch
  /\ editLength = Len(oldString) + Len(newString)
  /\ editLength >= 4

\* The step is a diagonal iteration for which both predecessors are usable.
BothAvailableStep ==
  /\ pc = "for"
  /\ from' \in {"add", "remove"}
  /\ canAdd'
  /\ canRemove'

\* C9 (as stated) - when both predecessors are available, the path is
\* derived from the insert predecessor iff its newPos is strictly less than
\* the delete predecessor's newPos.
TieBreakInsertIffLess ==
  [][BothAvailableStep =>
       (from' = "add" <=>
          NewPosOf(heap, bestPath, diagonalPath - 1)
            < NewPosOf(heap, bestPath, diagonalPath + 1))]_vars

\* C9 (amended) - when both predecessors are available, the path is derived
\* from the delete predecessor iff the insert predecessor's newPos is
\* strictly less than the delete predecessor's newPos, and from the insert
\* predecessor otherwise (ties included).
TieBreakRemoveIffLess ==
  [][BothAvailableStep =>
       (from' = "remove" <=>
          NewPosOf(heap, bestPath, diagonalPath - 1)
            < NewPosOf(heap, bestPath, diagonalPath + 1))]_vars

\* An iteration with both predecessors available took the insert branch.
TieBreakWitness ==
  /\ from = "add"
  /\ canAdd
  /\ canRemove

\* C10 - Exact outputs of the two worked examples.
ExactOutputs ==
  /\ (Returned /\ oldString = <<"a", "b", "c">> /\ newString = <<"a", "b", "X", "c">>) =>
       ret = << [count |-> 2, added |-> FALSE, removed |-> FALSE, value |-> <<"a", "b">>],
                [count |-> 1, added |-> TRUE, removed |-> FALSE, value |-> <<"X">>],
                [count |-> 1, added |-> FALSE, removed |-> FALSE, value |-> <<"c">>] >>
  /\ (Returned /\ oldString = <<"h", "e", "l", "l", "o">> /\ newString = <<"h", "e", "l", "o">>) =>
       ret = << [count |-> 3, added |-> FALSE, removed |-> FALSE, value |-> <<"h", "e", "l">>],
                [count |-> 1, added |-> FALSE, removed |-> TRUE, value |-> <<"l">>],
                [count |-> 1, added |-> FALSE, removed |-> FALSE, value |-> <<"o">>] >>

\* The call on ("hello", "helo") has returned.
ExactOutputsWitness ==
  /\ Returned
  /\ oldString = <<"h", "e", "l", "l", "o">>
  /\ newString = <<"h", "e", "l", "o">>
  /\ Len(ret) = 3

-----------------------------------------------------------------------------
(* Vocabulary of the properties of the search *)

\* The path stored on diagonal k, read through the heap.
StoredPath(k) == PathOf(heap, bestPath[k])

\* The step is one iteration of the for loop of execEditLength, on the
\* diagonal diagonalPath of the state it starts in.
DiagonalStep == pc = "for" /\ from' \in {"add", "remove", "prune"}

\* The insert predecessor exists and has an element of new left to add.
AbleToAdd ==
  /\ diagonalPath - 1 \in DOMAIN bestPath
  /\ StoredPath(diagonalPath - 1).newPos + 1 < Len(newString)

\* The delete predecessor exists and has an element of old left to remove.
AbleToRemove ==
  /\ diagonalPath + 1 \in DOMAIN bestPath
  /\ 0 <= StoredPath(diagonalPath + 1).newPos - diagonalPath
  /\ StoredPath(diagonalPath + 1).newPos - diagonalPath < Len(oldString)

RECURSIVE AddedCount(_)
AddedCount(script) ==
  IF script = <<>> THEN 0
  ELSE (IF Head(script).added THEN Head(script).count ELSE 0) + AddedCount(Tail(script))

RECURSIVE RemovedCount(_)
RemovedCount(script) ==
  IF script = <<>> THEN 0
  ELSE (IF Head(script).removed THEN Head(script).count ELSE 0)
         + RemovedCount(Tail(script))

RECURSIVE CommonTotal(_)
CommonTotal(script) ==
  IF script = <<>> THEN 0
  ELSE (IF ~Head(script).added /\ ~Head(script).removed THEN Head(script).count ELSE 0)
         + CommonTotal(Tail(script))

\* The components of the path the iteration has just built: of the returned
\* script, or of the path stored on the diagonal of the iteration.
BuiltComponents ==
  IF pc' = "return" THEN ret'
  ELSE PathOf(heap', bestPath'[diagonalPath]).components

\* newPos and the count and flags of each component, in order.
Shape(path) ==
  [newPos |-> path.newPos,
   components |-> [i \in 1..Len(path.components) |->
                     [count |-> path.components[i].count,
                      added |-> path.components[i].added,
                      removed |-> path.components[i].removed]]]

-----------------------------------------------------------------------------
\* C16 - Predecessor selection: with both predecessors feasible the path of
\* diagonal k is extended from the delete predecessor exactly when that
\* one's newPos is strictly greater than the insert predecessor's, and from
\* the insert predecessor otherwise; with one feasible that one is used;
\* with none the diagonal is pruned.
PredecessorSelection ==
  [][DiagonalStep =>
       /\ (AbleToAdd /\ AbleToRemove) =>
            /\ from' \in {"add", "remove"}
            /\ from' = "remove" <=>
                 StoredPath(diagonalPath + 1).newPos > StoredPath(diagonalPath - 1).newPos
       /\ (AbleToAdd /\ ~AbleToRemove) => from' = "add"
       /\ (~AbleToAdd /\ AbleToRemove) => from' = "remove"
       /\ (~AbleToAdd /\ ~AbleToRemove) =>
            from' = "prune" /\ diagonalPath \notin DOMAIN bestPath'
       /\ from' = "add" =>
            /\ AddedCount(BuiltComponents)
                 = AddedCount(StoredPath(diagonalPath - 1).components) + 1
            /\ RemovedCount(BuiltComponents)
                 = RemovedCount(StoredPath(diagonalPath - 1).components)
       /\ from' = "remove" =>
            /\ RemovedCount(BuiltComponents)
                 = RemovedCount(StoredPath(diagonalPath + 1).components) + 1
            /\ AddedCount(BuiltComponents)
                 = AddedCount(StoredPath(diagonalPath + 1).components)]_vars

\* An iteration with both predecessors feasible took the delete branch.
PredecessorSelectionWitness ==
  /\ from = "remove"
  /\ canAdd
  /\ canRemove

\* C17 - Diagonal table: at the end of a trial edit length d that returned
\* no solution, every stored path is on a diagonal k in -d..d of the parity
\* of d, and its added and removed counts sum to d.
DiagonalTable ==
  from = "next" =>
    \A k \in DOMAIN bestPath :
      /\ -(editLength - 1) <= k
      /\ k <= editLength - 1
      /\ (k + (editLength - 1)) % 2 = 0
      /\ EditCount(StoredPath(k).components) = editLength - 1

\* The end of trial edit length 2 or more with at least two paths stored.
DiagonalTableWitness ==
  /\ from = "next"
  /\ editLength >= 3
  /\ Cardinality(DOMAIN bestPath) >= 2

\* C18 - Path consistency: for every stored path on diagonal k the counts of
\* the non-removed components sum to newPos + 1, those of the non-added
\* components to newPos + 1 - k, both within the lengths of new and old; the
\* returned solution consumes exactly new and old.
PathConsistency ==
  /\ \A k \in DOMAIN bestPath :
       LET path == StoredPath(k)
           newUsed == CommonTotal(path.components) + AddedCount(path.components)
           oldUsed == CommonTotal(path.components) + RemovedCount(path.components)
       IN /\ newUsed = path.newPos + 1
          /\ oldUsed = path.newPos + 1 - k
          /\ 0 <= newUsed /\ newUsed <= Len(newString)
          /\ 0 <= oldUsed /\ oldUsed <= Len(oldString)
  /\ ReturnedFromSearch =>
       /\ CommonTotal(ret) + AddedCount(ret) = Len(newString)
       /\ CommonTotal(ret) + RemovedCount(ret) = Len(oldString)

\* A path of at least three components is stored off the main diagonal.
PathConsistencyWitness ==
  \E k \in DOMAIN bestPath :
    k # 0 /\ Len(StoredPath(k).components) >= 3

\* C19 - Path isolation: an iteration on diagonal k leaves newPos and the
\* component list (length, order, counts, flags) of every other stored path
\* as they were, the delete predecessor included, and stores no path on a
\* diagonal other than k; the insert predecessor it updates in place is no
\* longer in the table.
PathIsolation ==
  [][DiagonalStep =>
       /\ \A j \in DOMAIN bestPath' \ {diagonalPath} :
            /\ j \in DOMAIN bestPath
            /\ Shape(PathOf(heap', bestPath'[j])) = Shape(StoredPath(j))
       /\ diagonalPath + 1 \in DOMAIN bestPath =>
            diagonalPath + 1 \in DOMAIN bestPath'
       /\ from' = "add" => diagonalPath - 1 \notin DOMAIN bestPath']_vars

\* After a delete branch, the new path and its predecessor are both stored
\* and their arrays refer to the same first component object.
PathIsolationWitness ==
  /\ from = "remove"
  /\ pc = "for"
  /\ \E j, k \in DOMAIN bestPath :
       /\ k = j + 1
       /\ heap.paths[bestPath[j]].components # heap.paths[bestPath[k]].components
       /\ Len(heap.arrays[heap.paths[bestPath[j]].components]) >= 2
       /\ Len(heap.arrays[heap.paths[bestPath[k]].components]) >= 1
       /\ heap.arrays[heap.paths[bestPath[j]].components][1]
            = heap.arrays[heap.paths[bestPath[k]].components][1]

\* C20 - Snake maximality: every stored path has exhausted new, or exhausted
\* old, or stands before two different elements; a common run is one
\* unflagged component of count at least 1 whose elements are equal in old
\* and new, and no component is appended for an empty run.
SnakeMaximality ==
  \A k \in DOMAIN bestPath :
    LET path == StoredPath(k)
        n == Len(path.components)
        oldPos == path.newPos - k
    IN /\ \/ path.newPos + 1 >= Len(newString)
          \/ oldPos + 1 >= Len(oldString)
          \/ CharAt(newString, path.newPos + 1) # CharAt(oldString, oldPos + 1)
       /\ \A i \in 1..n : path.components[i].count >= 1
       /\ \A i \in 1..(n - 1) :
            ~(/\ ~path.components[i].added /\ ~path.components[i].removed
              /\ ~path.components[i + 1].added /\ ~path.components[i + 1].removed)
       /\ (n > 0 /\ ~path.components[n].added /\ ~path.components[n].removed) =>
            \A i \in 0..(path.components[n].count - 1) :
              CharAt(newString, path.newPos - i) = CharAt(oldString, oldPos - i)

\* A stored path ends in a common run that follows an edit, and stands
\* before two different elements.
SnakeMaximalityWitness ==
  \E k \in DOMAIN bestPath :
    LET path == StoredPath(k)
        n == Len(path.components)
    IN /\ n >= 2
       /\ ~path.components[n].added /\ ~path.components[n].removed
       /\ path.newPos + 1 < Len(newString)
       /\ path.newPos - k + 1 < Len(oldString)

\* C11 - Independence of invocations: in any sequence of invocations, an
\* invocation with the arguments of the first one returns the result the
\* first one returned, whatever the invocations in between left behind.
CallIndependence ==
  (/\ pc = "return"
   /\ first.over
   /\ oldString = first.old
   /\ newString = first.new) => ret = first.ret

\* The third invocation returned from a search, with the arguments of the
\* first, and the heap holds the path objects of earlier searches.
CallIndependenceWitness ==
  /\ calls = 3
  /\ ReturnedFromSearch
  /\ first.over
  /\ oldString = first.old
  /\ newString = first.new
  /\ Len(heap.paths) >= 6

-----------------------------------------------------------------------------
\* The step in which _updateMentions uses the script diffChars returned.
UpdateStep == pc = "return" /\ pc' = "done"

\* The recorded text from the start of mention m on is the end of the edited
\* text: the text changed before the mention only.
UpstreamEdit(m) ==
  /\ oldString # newString
  /\ Len(newString) >= Len(oldString) - m.pos.n
  /\ SubSeq(newString, Len(newString) - (Len(oldString) - m.pos.n) + 1, Len(newString))
       = SubSeq(oldString, m.pos.n + 1, Len(oldString))

\* C12 - Mention re-anchoring: after an edit that only inserts or deletes
\* characters before the start of a mention, _updateMentions keeps the
\* mention, at the index where its text now starts (its old pos plus the
\* change of the length of the text).
MentionReanchoring ==
  [][UpdateStep =>
       \A i \in 1..Len(mentions) :
         UpstreamEdit(mentions[i]) =>
           \E j \in 1..Len(mentions') :
             mentions'[j] =
               [pos |-> Num(mentions[i].pos.n + Len(newString) - Len(oldString)),
                value |-> mentions[i].value]]_vars

-----------------------------------------------------------------------------
\* The events of kind type that the last operation triggered on dialog id.
EventsOf(type, id) ==
  {i \in 1..Len(events) : events[i].type = type /\ events[i].dialog = id}

OpenTellsShown ==
  \A d \in 1..Len(dialogs) :
    dialogs[d].wasOpened =>
      (dialogs[d].open <=> IsShown(widget[dialogs[d].element]))

\* C15 - Select-all consistency: once the table is initialised, the
\* select-all checkbox is checked if and only if every enabled row checkbox
\* is checked.
SelectAllConsistency ==
  tablePc = "ready" =>
    (selectAll.checked <=> \A i \in Checkboxes(rows) : rows[i].checked)

\* The rows from row a to row b inclusive, in either order.
RowsBetween(a, b) == {i \in 1..Len(rows) : (a <= i /\ i <= b) \/ (b <= i /\ i <= a)}

\* C21 - Shift-click range: a shift-click on row checkbox r after a click on
\* another row checkbox l gives every checkbox in the rows from l to r the
\* new state of r and those rows the class 'selected' exactly when that
\* state is checked, and leaves the checkboxes of the other rows alone; a
\* click without shift, without previous click or on the row of the last
\* click changes the clicked row only.
ShiftClickRange ==
  [][\A r \in 1..Len(rows), shiftKey \in BOOLEAN :
       ClickRowAt(r, shiftKey) =>
         IF shiftKey /\ lastChecked # 0 /\ lastChecked # r
         THEN /\ \A i \in RowsBetween(lastChecked, r) :
                   /\ rows[i].kind # "none" => rows'[i].checked = ~rows[r].checked
                   /\ rows'[i].selected = ~rows[r].checked
              /\ \A i \in (1..Len(rows)) \ RowsBetween(lastChecked, r) :
                   /\ rows'[i].checked = rows[i].checked
                   /\ rows'[i].selected = rows[i].selected
              /\ Len(rows') = Len(rows)
         ELSE /\ rows'[r].checked = ~rows[r].checked
              /\ rows'[r].selected = ~rows[r].checked
              /\ \A i \in (1..Len(rows)) \ {r} : rows'[i] = rows[i]
              /\ Len(rows') = Len(rows)]_vars

\* A range of three rows was checked by a shift-click: the row with the
\* disabled checkbox in the middle carries the class and the state, which
\* only tableSelectRange gives it.
ShiftClickRangeWitness ==
  /\ Len(rows) = 3
  /\ rows[2].kind = "disabled"
  /\ rows[2].selected
  /\ \A i \in 1..3 : rows[i].checked /\ rows[i].selected
  /\ lastChecked \in {1, 3}

-----------------------------------------------------------------------------
\* The mentions of the list occupy pairwise disjoint ranges
\* [pos, pos + len(value)) of the text.
DisjointRanges(ms) ==
  \A i, j \in 1..Len(ms) :
    i < j =>
      /\ ~ms[i].pos.nan
      /\ ~ms[j].pos.nan
      /\ \/ ms[i].pos.n + Len(ms[i].value) <= ms[j].pos.n
         \/ ms[j].pos.n + Len(ms[j].value) <= ms[i].pos.n

\* C24 - Retained mentions never overlap: from mentions on pairwise
\* disjoint ranges of the text, an edit followed by _updateMentions leaves
\* mentions on pairwise disjoint ranges of the new text.
RetainedDisjoint ==
  [][(UpdateStep /\ DisjointRanges(mentions)) => DisjointRanges(mentions')]_vars

\* The old and the new text are non-empty, differ, and are equal up to the
\* end of mention m.
DownstreamEdit(m) ==
  /\ oldString # << >>
  /\ newString # << >>
  /\ oldString # newString
  /\ m.pos.n + Len(m.value) <= Len(oldString)
  /\ m.pos.n + Len(m.value) <= Len(newString)
  /\ SubSeq(oldString, 1, m.pos.n + Len(m.value))
       = SubSeq(newString, 1, m.pos.n + Len(m.value))

\* C26 - Downstream edits leave a mention untouched: when all changes of the
\* text are at or after the end of a mention, _updateMentions keeps the
\* mention with its pos.
DownstreamUntouched ==
  [][UpdateStep =>
       \A i \in 1..Len(mentions) :
         DownstreamEdit(mentions[i]) =>
           \E j \in 1..Len(mentions') : mentions'[j] = mentions[i]]_vars

\* _updateMentions has run after a search of diffChars on texts that are
\* equal up to the end of a kept mention that does not start the text.
DownstreamUntouchedWitness ==
  /\ pc = "done"
  /\ from \in {"add", "remove"}
  /\ \E j \in 1..Len(mentions) :
       /\ DownstreamEdit(mentions[j])
       /\ mentions[j].pos.n >= 1

-----------------------------------------------------------------------------
\* The list is in non-decreasing order of pos.
SortedByPos(ms) ==
  \A i, j \in 1..Len(ms) :
    i < j => /\ ~ms[i].pos.nan
             /\ ~ms[j].pos.nan
             /\ ms[i].pos.n <= ms[j].pos.n

\* C25 - Mentions stay sorted: a text edit followed by _updateMentions takes
\* a list in non-decreasing order of pos to a list in non-decreasing order
\* of pos.
MentionsStaySorted ==
  [][(UpdateStep /\ SortedByPos(mentions)) => SortedByPos(mentions')]_vars

-----------------------------------------------------------------------------
\* Every mention of the list lies on the text with its value.
Anchored(ms, text) ==
  \A i \in 1..Len(ms) :
    /\ HasValue(ms[i])
    /\ ~ms[i].pos.nan
    /\ 0 <= ms[i].pos.n
    /\ ms[i].pos.n + Len(ms[i].value) <= Len(text)
    /\ SubSeq(text, ms[i].pos.n + 1, ms[i].pos.n + Len(ms[i].value)) = ms[i].value

\* C23 - Retained mentions match the text: after _updateMentions, whatever
\* the recorded text, the text of the input and the mentions were, this.value
\* is the text of the input and every mention left lies on it with its value.
RetainedMatch ==
  [][(pc = "return" /\ inputPc = "update") =>
       (thisValue' = newString /\ Anchored(mentions', newString))]_vars

-----------------------------------------------------------------------------
\* The text the pieces show: each string, and the name of each markup.
RECURSIVE PiecesText(_)
PiecesText(pieces) ==
  IF pieces = << >> THEN << >>
  ELSE (IF IsString(Head(pieces)) THEN Head(pieces).text ELSE Head(pieces).value)
       \o PiecesText(Tail(pieces))

\* The mentions of the pieces from piece i on, in the order of appearance:
\* name and uid of the markup, pos where the name starts in the text shown.
RECURSIVE PiecesMentions(_, _)
PiecesMentions(pieces, i) ==
  IF i > Len(pieces) THEN << >>
  ELSE (IF IsString(pieces[i]) THEN << >>
        ELSE <<[name |-> pieces[i].value, uid |-> pieces[i].uid,
                pos |-> Num(Len(PiecesText(SubSeq(pieces, 1, i - 1))))]>>)
       \o PiecesMentions(pieces, i + 1)

Occurrences(ms, m) == Cardinality({i \in 1..Len(ms) : ms[i] = m})

\* The list after holds the mentions of the list before and the expected
\* ones, these in their order.
Recorded(before, after, expected) ==
  /\ Len(after) = Len(before) + Len(expected)
  /\ \A i \in 1..Len(after) :
       Occurrences(after, after[i])
         = Occurrences(before, after[i]) + Occurrences(expected, after[i])
  /\ \E f \in [1..Len(expected) -> 1..Len(after)] :
       /\ \A i \in 1..Len(expected) : after[f[i]] = expected[i]
       /\ \A i, j \in 1..Len(expected) : i < j => f[i] < f[j]

\* C22 - Markup parsing positions: _setValue of a value with k markups
\* @[name](uid) makes this.value and the text of the input the value with
\* each markup replaced by its name, and records k mentions in the order of
\* appearance, the i-th with the uid of the i-th markup and with the index
\* of the i-th name in the visible text as pos.
MarkupPositions ==
  [][\A pieces \in PieceLists :
       ((Construct /\ input = PiecesValue(pieces)) \/ SetValueWith(pieces)) =>
         /\ thisValue' = PiecesText(pieces)
         /\ input' = PiecesText(pieces)
         /\ Recorded(mentions, mentions', PiecesMentions(pieces, 1))]_vars

\* _setValue has recorded two mentions of a value of two markups, the
\* first with a uid of two characters.
MarkupPositionsWitness ==
  /\ inputPc = "dead"
  /\ Len(mentions) = 2
  /\ Len(mentions[1].uid) = 2
  /\ mentions[2].pos.n = Len(mentions[1].name)
  /\ thisValue = mentions[1].name \o mentions[2].name

=============================================================================
